---- MODULE Spec2Model ----
(***************************************************************************)
(* PicEdit: the editor page (EditPage) as a state machine.                 *)
(*                                                                         *)
(* Every React state cell that an event handler, an effect or an image     *)
(* decode callback reads or writes is a variable.  A handler runs to       *)
(* completion (one action); an image decode started by a handler is an     *)
(* entry of a pending list whose onload is a later action that works on    *)
(* the values its closure captured when the handler ran.                   *)
(*                                                                         *)
(* Lengths are kept exact: a canvas region is held in hundredths of a      *)
(* pixel, the zoom scale in hundredths (scale = 100 is the factor 1).      *)
(* Pure layout state (activeCategory, showTooltip, showColorPicker,        *)
(* imageDimensions, selectedBrush, selectedShape, fileName) is left out:   *)
(* no handler modelled here reads it.                                      *)
(***************************************************************************)
EXTENDS Integers, Sequences, FiniteSets

VARIABLES
  storage,          \* sessionStorage: editImageData, editImageType
  route,            \* "edit" while the editor page is shown, "home" after router.push('/')
  imageData,        \* the working image (a data URL in the code), or Null
  imageType,
  adj,              \* brightness .. vibrance: the numeric adjustment cells
  selectedFilter,
  rotation,
  flip,
  crop,
  completedCrop,
  scale,
  isCropping,
  isSaving,
  drawSettings,
  textAnnotations,
  newTextInput,
  isAddingText,
  selectedText,
  drawingState,
  drawCanvas,       \* the element behind drawCanvasRef: Null while unmounted
  pendingLoads,     \* decodes started by the image-load effect
  pendingCrops,     \* decodes started by finishCrop, with their closures
  pendingSaves,     \* exports started by handleSave, with their closures
  downloads,        \* the files link.click() has produced, in order
  completions,      \* number of ReactCrop onComplete events so far
  applied,          \* <<image, n>>: image was produced by committing completion n
  saveCalls,        \* 1 once handleSave has been called, 0 before
  rotateSum,        \* sum of the deltas given to handleRotate since rotation was 0, mod 360
  sinceReset,       \* the last user event was a click on Reset
  storageReads,     \* the code sites that have called sessionStorage.getItem
  selectedFile,     \* ImageUploader: the selected File, or Null
  pendingReads      \* ImageUploader: the FileReader reads handleEdit has started

vars == <<storage, route, imageData, imageType, adj, selectedFilter, rotation, flip,
          crop, completedCrop, scale, isCropping, isSaving, drawSettings,
          textAnnotations, newTextInput, isAddingText, selectedText, drawingState,
          drawCanvas, pendingLoads, pendingCrops, pendingSaves, downloads,
          completions, applied, saveCalls, rotateSum, sinceReset,
          storageReads, selectedFile, pendingReads>>

\* JavaScript null.  A cell that holds a string or null uses NoString for
\* null, selectedText (an index, counted from 1 here) uses 0, and
\* drawSettings.tool uses "none".
Null == [null |-> TRUE]
NoString == "null"

(***************************************************************************)
(* Bounds of the exploration.                                              *)
(***************************************************************************)
MaxAdjusted == 2      \* adjustment cells away from their default at one time
MaxTexts == 2         \* text annotations
MaxCrops == 1         \* crop commits the working image is away from the stored image
MaxCompletions == 2   \* ReactCrop onComplete events
MaxSaves == 1         \* exports that run to their download
MaxPending == 1       \* working-image decodes in flight (effect loads and crop commits)
MaxReads == 2         \* FileReader reads started by handleEdit

(***************************************************************************)
(* Images.  A data URL is modelled by what it decodes to: its natural      *)
(* size and, for a crop result, the image and the region it was cut from.  *)
(* canvas.toDataURL of a canvas with no pixels is "data:,", which does     *)
(* not decode.                                                             *)
(***************************************************************************)
StoredImage == [w |-> 200, h |-> 100, from |-> <<>>]
StoredType == "image/png"

\* A second file the user can select in the uploader.
OtherImage == [w |-> 100, h |-> 100, from |-> <<>>]
OtherType == "image/jpeg"

Decodable(img) == img # Null /\ img.w > 0 /\ img.h > 0

\* canvas.toDataURL of a w by h canvas onto which region `region` of image
\* `src` was drawn.
EmptyDataURL == [w |-> 0, h |-> 0, from |-> <<>>]
ToDataURL(w, h, src, region) ==
  IF w = 0 \/ h = 0 THEN EmptyDataURL
  ELSE [w |-> w, h |-> h, from |-> <<[image |-> src, region |-> region]>>]

RECURSIVE Depth(_)
Depth(img) == IF img.from = <<>> THEN 0 ELSE 1 + Depth(img.from[1].image)

RECURSIVE Lineage(_)
Lineage(img) == IF img.from = <<>> THEN {img} ELSE {img} \cup Lineage(img.from[1].image)

\* Assigning a number to canvas.width / canvas.height converts it to an
\* unsigned long: the fraction is dropped.  c is in hundredths of a pixel.
CanvasSize(c) == c \div 100

(***************************************************************************)
(* Defaults (the useState initial values, which handleReset restores).     *)
(***************************************************************************)
AdjDefault ==
  [brightness |-> 100, contrast |-> 100, saturation |-> 100, blur |-> 0,
   sharpen |-> 0, vignette |-> 0, sepia |-> 0, hue |-> 0,
   highlights |-> 0, shadows |-> 0, clarity |-> 0, vibrance |-> 0]

\* The sliders of the Adjust panel with the ends of their ranges.
SliderRange ==
  [brightness |-> {0, 100}, contrast |-> {0, 100}, saturation |-> {0, 100},
   highlights |-> {-100, 100}, shadows |-> {-100, 100}, clarity |-> {0, 50},
   vibrance |-> {-100, 100}, sharpen |-> {0, 50}]

FilterNames == {"none", "grayscale"}

DefaultCrop == [unit |-> "%", width |-> 90, height |-> 90, x |-> 5, y |-> 5]

DefaultFlip == [horizontal |-> FALSE, vertical |-> FALSE]

InitialDrawSettings == [tool |-> "none", color |-> "#000000", size |-> 5, opacity |-> 100]

ResetDrawSettings ==
  [tool |-> "none", color |-> "#000000", size |-> 5, opacity |-> 100,
   brushType |-> "pencil", shape |-> "rectangle"]

InitialDrawingState == [isDrawing |-> FALSE, lastX |-> 0, lastY |-> 0]

\* A canvas element as the browser creates it.
FreshCanvas == [width |-> 300, height |-> 150, ink |-> FALSE]

(***************************************************************************)
(* Inputs.                                                                 *)
(***************************************************************************)
\* Rectangles ReactCrop hands to onChange and onComplete.
\* The rectangle {x: 25, y: 0, width: 50, height: 100}, as ReactCrop reports it.
CenterBand == [unit |-> "px", x |-> 25, y |-> 0, width |-> 50, height |-> 100]

CropInputs ==
  { [unit |-> "px", x |-> 25, y |-> 0, width |-> 50, height |-> 100],
    [unit |-> "px", x |-> 10, y |-> 10, width |-> 0, height |-> 0] }

ZoomInputs == {50, 100, 200}

RotateAngles == {-90, -45, 45, 90}

\* Pointer offsets from the left/top edge of the element, in CSS pixels.
PointerOffsets == {-5, 10}

TextInputs == {"", "hi"}

\* Sizes a drag of the resize handle hands to onResize.
ResizeInputs == { [width |-> 40, height |-> 20], [width |-> 60, height |-> 30] }

\* The files the user can pick or drop in the uploader.
Files == { [image |-> StoredImage, type |-> StoredType],
           [image |-> OtherImage, type |-> OtherType] }

\* The box of the preview, in CSS pixels.  The <Image fill> element takes the
\* box of its container: the whole width of the column, and the height the
\* aspect ratio of the image gives, capped by maxHeight.  An image without
\* pixels has no box.
ColumnWidth == 100
ViewHeight == 40
Displayed(img) ==
  IF img.w = 0 \/ img.h = 0 THEN [width |-> 0, height |-> 0]
  ELSE [width |-> ColumnWidth,
        height |-> IF (ColumnWidth * img.h) \div img.w > ViewHeight THEN ViewHeight
                   ELSE (ColumnWidth * img.h) \div img.w]

Init ==
  /\ storage \in { [editImageData |-> StoredImage, editImageType |-> StoredType],
                   [editImageData |-> StoredImage, editImageType |-> NoString],
                   [editImageData |-> Null, editImageType |-> StoredType] }
  /\ route = "edit"
  /\ imageData = Null
  /\ imageType = NoString
  /\ adj = AdjDefault
  /\ selectedFilter = NoString
  /\ rotation = 0
  /\ flip = DefaultFlip
  /\ crop = DefaultCrop
  /\ completedCrop = Null
  /\ scale = 100
  /\ isCropping = FALSE
  /\ isSaving = FALSE
  /\ drawSettings = InitialDrawSettings
  /\ textAnnotations = <<>>
  /\ newTextInput = ""
  /\ isAddingText = FALSE
  /\ selectedText = 0
  /\ drawingState = InitialDrawingState
  /\ drawCanvas = Null
  /\ pendingLoads = <<>>
  /\ pendingCrops = <<>>
  /\ pendingSaves = <<>>
  /\ downloads = <<>>
  /\ completions = 0
  /\ applied = {}
  /\ saveCalls = 0
  /\ rotateSum = 0
  /\ sinceReset = FALSE
  /\ storageReads = {}
  /\ selectedFile = Null
  /\ pendingReads = <<>>

(***************************************************************************)
(* Helpers shared by the handlers.                                         *)
(***************************************************************************)
RemoveAt(s, i) == SubSeq(s, 1, i - 1) \o SubSeq(s, i + 1, Len(s))

\* The page renders its controls only with an image and a type (line 856).
Rendered == route = "edit" /\ imageData # Null /\ imageType # NoString

\* The draw canvas after a render: it is mounted only outside crop mode, and
\* a canvas that was not mounted before is a new element.
CanvasAfterRender(cropping, canvas) ==
  IF cropping THEN Null
  ELSE IF canvas = Null THEN FreshCanvas ELSE canvas

\* The image-load effect runs after a render in which imageData changed.
LoadsAfterRender(newImage) ==
  IF newImage # imageData THEN Append(pendingLoads, newImage) ELSE pendingLoads

\* JavaScript's % : the result takes the sign of the dividend.
JSRem(a, n) == IF a >= 0 THEN a % n ELSE -((-a) % n)

Adjusted(a, f) ==
  Cardinality({g \in DOMAIN a : a[g] # AdjDefault[g]}) + (IF f = NoString THEN 0 ELSE 1)

(***************************************************************************)
(* Initialization: the mount effect and the image-load effect.             *)
(***************************************************************************)
\* The mount effect, were it to load the image without its type entry.
InitEffectLoadsWithoutType ==
  /\ route = "edit"
  /\ imageData = Null
  /\ IF storage.editImageData = Null
     THEN /\ route' = "home"
          /\ UNCHANGED <<imageData, imageType, drawCanvas, pendingLoads>>
     ELSE /\ imageData' = storage.editImageData
          /\ imageType' = storage.editImageType
          /\ drawCanvas' = CanvasAfterRender(isCropping, drawCanvas)
          /\ pendingLoads' = LoadsAfterRender(storage.editImageData)
          /\ route' = route
  /\ sinceReset' = sinceReset
  /\ storageReads' = storageReads \cup {"mount"}
  /\ UNCHANGED <<selectedFile, pendingReads>>
  /\ UNCHANGED <<storage, adj, selectedFilter, rotation, flip, crop, completedCrop,
                 scale, isCropping, isSaving, drawSettings, textAnnotations,
                 newTextInput, isAddingText, selectedText, drawingState,
                 pendingCrops, pendingSaves, downloads, completions, applied,
                 saveCalls, rotateSum>>

InitEffect ==
  /\ route = "edit"
  /\ imageData = Null
  /\ IF storage.editImageData = Null \/ storage.editImageType = NoString
     THEN /\ route' = "home"
          /\ UNCHANGED <<imageData, imageType, drawCanvas, pendingLoads>>
     ELSE /\ imageData' = storage.editImageData
          /\ imageType' = storage.editImageType
          /\ drawCanvas' = CanvasAfterRender(isCropping, drawCanvas)
          /\ pendingLoads' = LoadsAfterRender(storage.editImageData)
          /\ route' = route
  /\ sinceReset' = sinceReset
  /\ storageReads' = storageReads \cup {"mount"}
  /\ UNCHANGED <<selectedFile, pendingReads>>
  /\ UNCHANGED <<storage, adj, selectedFilter, rotation, flip, crop, completedCrop,
                 scale, isCropping, isSaving, drawSettings, textAnnotations,
                 newTextInput, isAddingText, selectedText, drawingState,
                 pendingCrops, pendingSaves, downloads, completions, applied,
                 saveCalls, rotateSum>>

\* img.onload of the image-load effect: the draw canvas, when mounted, takes
\* the natural size of the decoded image, which also clears it.
ImageLoadOnload(i) ==
  /\ i \in DOMAIN pendingLoads
  /\ Decodable(pendingLoads[i])
  /\ drawCanvas' = IF drawCanvas = Null THEN Null
                   ELSE [width |-> pendingLoads[i].w, height |-> pendingLoads[i].h,
                         ink |-> FALSE]
  /\ pendingLoads' = RemoveAt(pendingLoads, i)
  /\ sinceReset' = sinceReset
  /\ UNCHANGED <<storageReads, selectedFile, pendingReads>>
  /\ UNCHANGED <<storage, route, imageData, imageType, adj, selectedFilter, rotation,
                 flip, crop, completedCrop, scale, isCropping, isSaving, drawSettings,
                 textAnnotations, newTextInput, isAddingText, selectedText,
                 drawingState, pendingCrops, pendingSaves, downloads, completions,
                 applied, saveCalls, rotateSum>>

\* The decode fails: no onerror is registered, the load is dropped.
ImageLoadOnerror(i) ==
  /\ i \in DOMAIN pendingLoads
  /\ ~Decodable(pendingLoads[i])
  /\ pendingLoads' = RemoveAt(pendingLoads, i)
  /\ sinceReset' = sinceReset
  /\ UNCHANGED <<storageReads, selectedFile, pendingReads>>
  /\ UNCHANGED <<storage, route, imageData, imageType, adj, selectedFilter, rotation,
                 flip, crop, completedCrop, scale, isCropping, isSaving, drawSettings,
                 textAnnotations, newTextInput, isAddingText, selectedText,
                 drawingState, drawCanvas, pendingCrops, pendingSaves, downloads,
                 completions, applied, saveCalls, rotateSum>>

(***************************************************************************)
(* Adjust and Quick Filters panels.                                        *)
(***************************************************************************)
SetAdjustment(f, v) ==
  /\ Rendered
  /\ adj' = [adj EXCEPT ![f] = v]
  /\ Adjusted(adj', selectedFilter) <= MaxAdjusted
  /\ sinceReset' = FALSE
  /\ UNCHANGED <<storageReads, selectedFile, pendingReads>>
  /\ UNCHANGED <<storage, route, imageData, imageType, selectedFilter, rotation, flip,
                 crop, completedCrop, scale, isCropping, isSaving, drawSettings,
                 textAnnotations, newTextInput, isAddingText, selectedText,
                 drawingState, drawCanvas, pendingLoads, pendingCrops, pendingSaves,
                 downloads, completions, applied, saveCalls, rotateSum>>

SelectFilter(name) ==
  /\ Rendered
  /\ selectedFilter' = name
  /\ Adjusted(adj, selectedFilter') <= MaxAdjusted
  /\ sinceReset' = FALSE
  /\ UNCHANGED <<storageReads, selectedFile, pendingReads>>
  /\ UNCHANGED <<storage, route, imageData, imageType, adj, rotation, flip,
                 crop, completedCrop, scale, isCropping, isSaving, drawSettings,
                 textAnnotations, newTextInput, isAddingText, selectedText,
                 drawingState, drawCanvas, pendingLoads, pendingCrops, pendingSaves,
                 downloads, completions, applied, saveCalls, rotateSum>>

(***************************************************************************)
(* Transform panel: rotation, flips, crop mode.                            *)
(***************************************************************************)
handleRotate(degrees) ==
  /\ Rendered
  /\ rotation' = JSRem(rotation + degrees, 360)
  /\ rotateSum' = (rotateSum + degrees) % 360
  /\ sinceReset' = FALSE
  /\ UNCHANGED <<storageReads, selectedFile, pendingReads>>
  /\ UNCHANGED <<storage, route, imageData, imageType, adj, selectedFilter, flip,
                 crop, completedCrop, scale, isCropping, isSaving, drawSettings,
                 textAnnotations, newTextInput, isAddingText, selectedText,
                 drawingState, drawCanvas, pendingLoads, pendingCrops, pendingSaves,
                 downloads, completions, applied, saveCalls>>

FlipHorizontal ==
  /\ Rendered
  /\ flip' = [flip EXCEPT !.horizontal = ~flip.horizontal]
  /\ sinceReset' = FALSE
  /\ UNCHANGED <<storageReads, selectedFile, pendingReads>>
  /\ UNCHANGED <<storage, route, imageData, imageType, adj, selectedFilter, rotation,
                 crop, completedCrop, scale, isCropping, isSaving, drawSettings,
                 textAnnotations, newTextInput, isAddingText, selectedText,
                 drawingState, drawCanvas, pendingLoads, pendingCrops, pendingSaves,
                 downloads, completions, applied, saveCalls, rotateSum>>

FlipVertical ==
  /\ Rendered
  /\ flip' = [flip EXCEPT !.vertical = ~flip.vertical]
  /\ sinceReset' = FALSE
  /\ UNCHANGED <<storageReads, selectedFile, pendingReads>>
  /\ UNCHANGED <<storage, route, imageData, imageType, adj, selectedFilter, rotation,
                 crop, completedCrop, scale, isCropping, isSaving, drawSettings,
                 textAnnotations, newTextInput, isAddingText, selectedText,
                 drawingState, drawCanvas, pendingLoads, pendingCrops, pendingSaves,
                 downloads, completions, applied, saveCalls, rotateSum>>

\* The crop button while it reads "Start Crop".
StartCrop ==
  /\ Rendered
  /\ ~isCropping
  /\ isCropping' = TRUE
  /\ drawCanvas' = CanvasAfterRender(TRUE, drawCanvas)
  /\ sinceReset' = FALSE
  /\ UNCHANGED <<storageReads, selectedFile, pendingReads>>
  /\ UNCHANGED <<storage, route, imageData, imageType, adj, selectedFilter, rotation,
                 flip, crop, completedCrop, scale, isSaving, drawSettings,
                 textAnnotations, newTextInput, isAddingText, selectedText,
                 drawingState, pendingLoads, pendingCrops, pendingSaves, downloads,
                 completions, applied, saveCalls, rotateSum>>

\* ReactCrop onChange.
CropChange(c) ==
  /\ Rendered
  /\ isCropping
  /\ crop' = c
  /\ sinceReset' = FALSE
  /\ UNCHANGED <<storageReads, selectedFile, pendingReads>>
  /\ UNCHANGED <<storage, route, imageData, imageType, adj, selectedFilter, rotation,
                 flip, completedCrop, scale, isCropping, isSaving, drawSettings,
                 textAnnotations, newTextInput, isAddingText, selectedText,
                 drawingState, drawCanvas, pendingLoads, pendingCrops, pendingSaves,
                 downloads, completions, applied, saveCalls, rotateSum>>

\* ReactCrop onComplete.  n numbers the completion events.
CropComplete(c) ==
  /\ Rendered
  /\ isCropping
  /\ completions < MaxCompletions
  /\ completions' = completions + 1
  /\ completedCrop' = [unit |-> c.unit, x |-> c.x, y |-> c.y, width |-> c.width,
                       height |-> c.height, n |-> completions + 1]
  /\ sinceReset' = FALSE
  /\ UNCHANGED <<storageReads, selectedFile, pendingReads>>
  /\ UNCHANGED <<storage, route, imageData, imageType, adj, selectedFilter, rotation,
                 flip, crop, scale, isCropping, isSaving, drawSettings,
                 textAnnotations, newTextInput, isAddingText, selectedText,
                 drawingState, drawCanvas, pendingLoads, pendingCrops, pendingSaves,
                 downloads, applied, saveCalls, rotateSum>>

\* The Zoom slider, shown in crop mode: setScale(Number(value) / 100).
SetZoom(z) ==
  /\ Rendered
  /\ isCropping
  /\ scale' = z
  /\ sinceReset' = FALSE
  /\ UNCHANGED <<storageReads, selectedFile, pendingReads>>
  /\ UNCHANGED <<storage, route, imageData, imageType, adj, selectedFilter, rotation,
                 flip, crop, completedCrop, isCropping, isSaving, drawSettings,
                 textAnnotations, newTextInput, isAddingText, selectedText,
                 drawingState, drawCanvas, pendingLoads, pendingCrops, pendingSaves,
                 downloads, completions, applied, saveCalls, rotateSum>>

\* finishCrop, were leaving crop mode to drop the text annotations.
finishCropDropsText ==
  /\ Rendered
  /\ isCropping
  /\ IF completedCrop # Null /\ imageData # Null
     THEN /\ Depth(imageData) < MaxCrops
          /\ Len(pendingLoads) + Len(pendingCrops) < MaxPending
          /\ pendingCrops' = Append(pendingCrops,
                                    [completedCrop |-> completedCrop, scale |-> scale,
                                     imageData |-> imageData, imageType |-> imageType])
          /\ UNCHANGED <<isCropping, scale, drawCanvas, textAnnotations>>
     ELSE /\ isCropping' = FALSE
          /\ scale' = 100
          /\ drawCanvas' = CanvasAfterRender(FALSE, drawCanvas)
          /\ textAnnotations' = <<>>
          /\ UNCHANGED pendingCrops
  /\ sinceReset' = FALSE
  /\ UNCHANGED <<storageReads, selectedFile, pendingReads>>
  /\ UNCHANGED <<storage, route, imageData, imageType, adj, selectedFilter, rotation,
                 flip, crop, completedCrop, isSaving, drawSettings,
                 newTextInput, isAddingText, selectedText, drawingState, pendingLoads,
                 pendingSaves, downloads, completions, applied, saveCalls, rotateSum>>

\* The crop button while it reads "Apply Crop".  With a completed rectangle
\* the handler only starts a decode of the working image; its closure holds
\* the cells of the render in which the button was clicked.
finishCrop ==
  /\ Rendered
  /\ isCropping
  /\ IF completedCrop # Null /\ imageData # Null
     THEN /\ Depth(imageData) < MaxCrops
          /\ Len(pendingLoads) + Len(pendingCrops) < MaxPending
          /\ pendingCrops' = Append(pendingCrops,
                                    [completedCrop |-> completedCrop, scale |-> scale,
                                     imageData |-> imageData, imageType |-> imageType])
          /\ UNCHANGED <<isCropping, scale, drawCanvas>>
     ELSE /\ isCropping' = FALSE
          /\ scale' = 100
          /\ drawCanvas' = CanvasAfterRender(FALSE, drawCanvas)
          /\ UNCHANGED pendingCrops
  /\ sinceReset' = FALSE
  /\ UNCHANGED <<storageReads, selectedFile, pendingReads>>
  /\ UNCHANGED <<storage, route, imageData, imageType, adj, selectedFilter, rotation,
                 flip, crop, completedCrop, isSaving, drawSettings, textAnnotations,
                 newTextInput, isAddingText, selectedText, drawingState, pendingLoads,
                 pendingSaves, downloads, completions, applied, saveCalls, rotateSum>>

\* scaledCrop of finishCrop, in hundredths of a pixel: completedCrop / scale.
scaledCropFinish(c, s) ==
  [x |-> (c.x * 10000) \div s, y |-> (c.y * 10000) \div s,
   width |-> (c.width * 10000) \div s, height |-> (c.height * 10000) \div s]

\* croppedData of finishCrop's image.onload.
croppedData(p) ==
  ToDataURL(CanvasSize(scaledCropFinish(p.completedCrop, p.scale).width),
            CanvasSize(scaledCropFinish(p.completedCrop, p.scale).height),
            p.imageData, scaledCropFinish(p.completedCrop, p.scale))

\* image.onload of finishCrop, were it to leave completedCrop set.
FinishCropOnloadKeepsRectangle(i) ==
  /\ i \in DOMAIN pendingCrops
  /\ Decodable(pendingCrops[i].imageData)
  /\ imageData' = croppedData(pendingCrops[i])
  /\ isCropping' = FALSE
  /\ completedCrop' = completedCrop
  /\ scale' = 100
  /\ drawCanvas' = CanvasAfterRender(FALSE, drawCanvas)
  /\ pendingLoads' = LoadsAfterRender(imageData')
  /\ pendingCrops' = RemoveAt(pendingCrops, i)
  /\ applied' = applied \cup {<<imageData', pendingCrops[i].completedCrop.n>>}
  /\ sinceReset' = sinceReset
  /\ UNCHANGED <<storageReads, selectedFile, pendingReads>>
  /\ UNCHANGED <<storage, route, imageType, adj, selectedFilter, rotation, flip, crop,
                 isSaving, drawSettings, textAnnotations, newTextInput, isAddingText,
                 selectedText, drawingState, pendingSaves, downloads, completions,
                 saveCalls, rotateSum>>

\* image.onload of finishCrop.
\* image.onload of finishCrop, were it to store the cropped image as the
\* original.
FinishCropOnloadWritesStorage(i) ==
  /\ i \in DOMAIN pendingCrops
  /\ Decodable(pendingCrops[i].imageData)
  /\ imageData' = croppedData(pendingCrops[i])
  /\ isCropping' = FALSE
  /\ completedCrop' = Null
  /\ scale' = 100
  /\ drawCanvas' = CanvasAfterRender(FALSE, drawCanvas)
  /\ pendingLoads' = LoadsAfterRender(imageData')
  /\ pendingCrops' = RemoveAt(pendingCrops, i)
  /\ applied' = applied \cup {<<imageData', pendingCrops[i].completedCrop.n>>}
  /\ sinceReset' = sinceReset
  /\ UNCHANGED <<storageReads, selectedFile, pendingReads>>
  /\ storage' = [storage EXCEPT !.editImageData = imageData']
  /\ UNCHANGED <<route, imageType, adj, selectedFilter, rotation, flip, crop,
                 isSaving, drawSettings, textAnnotations, newTextInput, isAddingText,
                 selectedText, drawingState, pendingSaves, downloads, completions,
                 saveCalls, rotateSum>>

\* image.onload of finishCrop, were it to leave the zoom as it is.
FinishCropOnloadKeepsZoom(i) ==
  /\ i \in DOMAIN pendingCrops
  /\ Decodable(pendingCrops[i].imageData)
  /\ imageData' = croppedData(pendingCrops[i])
  /\ isCropping' = FALSE
  /\ completedCrop' = Null
  /\ scale' = scale
  /\ drawCanvas' = CanvasAfterRender(FALSE, drawCanvas)
  /\ pendingLoads' = LoadsAfterRender(imageData')
  /\ pendingCrops' = RemoveAt(pendingCrops, i)
  /\ applied' = applied \cup {<<imageData', pendingCrops[i].completedCrop.n>>}
  /\ sinceReset' = sinceReset
  /\ UNCHANGED <<storageReads, selectedFile, pendingReads>>
  /\ UNCHANGED <<storage, route, imageType, adj, selectedFilter, rotation, flip, crop,
                 isSaving, drawSettings, textAnnotations, newTextInput, isAddingText,
                 selectedText, drawingState, pendingSaves, downloads, completions,
                 saveCalls, rotateSum>>

FinishCropOnload(i) ==
  /\ i \in DOMAIN pendingCrops
  /\ Decodable(pendingCrops[i].imageData)
  /\ imageData' = croppedData(pendingCrops[i])
  /\ isCropping' = FALSE
  /\ completedCrop' = Null
  /\ scale' = 100
  /\ drawCanvas' = CanvasAfterRender(FALSE, drawCanvas)
  /\ pendingLoads' = LoadsAfterRender(imageData')
  /\ pendingCrops' = RemoveAt(pendingCrops, i)
  /\ applied' = applied \cup {<<imageData', pendingCrops[i].completedCrop.n>>}
  /\ sinceReset' = sinceReset
  /\ UNCHANGED <<storageReads, selectedFile, pendingReads>>
  /\ UNCHANGED <<storage, route, imageType, adj, selectedFilter, rotation, flip, crop,
                 isSaving, drawSettings, textAnnotations, newTextInput, isAddingText,
                 selectedText, drawingState, pendingSaves, downloads, completions,
                 saveCalls, rotateSum>>

\* The decode started by finishCrop fails: no onerror is registered.
FinishCropOnerror(i) ==
  /\ i \in DOMAIN pendingCrops
  /\ ~Decodable(pendingCrops[i].imageData)
  /\ pendingCrops' = RemoveAt(pendingCrops, i)
  /\ sinceReset' = sinceReset
  /\ UNCHANGED <<storageReads, selectedFile, pendingReads>>
  /\ UNCHANGED <<storage, route, imageData, imageType, adj, selectedFilter, rotation,
                 flip, crop, completedCrop, scale, isCropping, isSaving, drawSettings,
                 textAnnotations, newTextInput, isAddingText, selectedText,
                 drawingState, drawCanvas, pendingLoads, pendingSaves, downloads,
                 completions, applied, saveCalls, rotateSum>>

(***************************************************************************)
(* Header buttons: Reset and Download.                                     *)
(***************************************************************************)
\* The reset, were it to leave the completed rectangle set.
handleResetKeepsRectangle ==
  /\ Rendered
  /\ adj' = AdjDefault
  /\ selectedFilter' = NoString
  /\ rotation' = 0
  /\ flip' = DefaultFlip
  /\ crop' = DefaultCrop
  /\ completedCrop' = completedCrop
  /\ scale' = 100
  /\ isCropping' = FALSE
  /\ drawSettings' = ResetDrawSettings
  /\ textAnnotations' = <<>>
  /\ newTextInput' = ""
  /\ isAddingText' = FALSE
  /\ selectedText' = 0
  /\ drawCanvas' = CanvasAfterRender(FALSE,
                     IF drawCanvas = Null THEN Null
                     ELSE [drawCanvas EXCEPT !.ink = FALSE])
  /\ imageData' = IF storage.editImageData # Null THEN storage.editImageData
                  ELSE imageData
  /\ pendingLoads' = LoadsAfterRender(imageData')
  /\ Len(pendingLoads') + Len(pendingCrops) <= MaxPending
  /\ rotateSum' = 0
  /\ sinceReset' = TRUE
  /\ storageReads' = storageReads \cup {"handleReset"}
  /\ UNCHANGED <<selectedFile, pendingReads>>
  /\ UNCHANGED <<storage, route, imageType, isSaving, drawingState, pendingCrops,
                 pendingSaves, downloads, completions, applied, saveCalls>>

handleReset ==
  /\ Rendered
  /\ adj' = AdjDefault
  /\ selectedFilter' = NoString
  /\ rotation' = 0
  /\ flip' = DefaultFlip
  /\ crop' = DefaultCrop
  /\ completedCrop' = Null
  /\ scale' = 100
  /\ isCropping' = FALSE
  /\ drawSettings' = ResetDrawSettings
  /\ textAnnotations' = <<>>
  /\ newTextInput' = ""
  /\ isAddingText' = FALSE
  /\ selectedText' = 0
  /\ drawCanvas' = CanvasAfterRender(FALSE,
                     IF drawCanvas = Null THEN Null
                     ELSE [drawCanvas EXCEPT !.ink = FALSE])
  /\ imageData' = IF storage.editImageData # Null THEN storage.editImageData
                  ELSE imageData
  /\ pendingLoads' = LoadsAfterRender(imageData')
  /\ Len(pendingLoads') + Len(pendingCrops) <= MaxPending
  /\ rotateSum' = 0
  /\ sinceReset' = TRUE
  /\ storageReads' = storageReads \cup {"handleReset"}
  /\ UNCHANGED <<selectedFile, pendingReads>>
  /\ UNCHANGED <<storage, route, imageType, isSaving, drawingState, pendingCrops,
                 pendingSaves, downloads, completions, applied, saveCalls>>

\* The Download button, were it to stay enabled during an export.
DownloadAlwaysEnabled == TRUE

\* disabled={isSaving} on the Download button: a click reaches handleSave only
\* while isSaving is false.
DownloadEnabled == ~isSaving

\* handleSave, were it to lack the early return for a missing image.
handleSaveUnguarded ==
  /\ route = "edit"
  /\ DownloadEnabled
  /\ Len(downloads) < MaxSaves
  /\ saveCalls' = 1
  /\ IF FALSE
     THEN UNCHANGED <<isSaving, pendingSaves>>
     ELSE /\ isSaving' = TRUE
          /\ pendingSaves' = Append(pendingSaves,
               [status |-> "decoding", imageData |-> imageData, imageType |-> imageType,
                brightness |-> adj.brightness, contrast |-> adj.contrast,
                saturation |-> adj.saturation, rotation |-> rotation, flip |-> flip,
                completedCrop |-> completedCrop, textAnnotations |-> textAnnotations,
                adj |-> adj, selectedFilter |-> selectedFilter])
  /\ sinceReset' = FALSE
  /\ UNCHANGED <<storageReads, selectedFile, pendingReads>>
  /\ UNCHANGED <<storage, route, imageData, imageType, adj, selectedFilter, rotation,
                 flip, crop, completedCrop, scale, isCropping, drawSettings,
                 textAnnotations, newTextInput, isAddingText, selectedText,
                 drawingState, drawCanvas, pendingLoads, pendingCrops, downloads,
                 completions, applied, rotateSum>>

\* The Download button.  The closure of img.onload holds the cells of the
\* render in which the button was clicked.
handleSave ==
  /\ route = "edit"
  /\ DownloadEnabled
  /\ Len(downloads) < MaxSaves
  /\ saveCalls' = 1
  /\ IF imageData = Null
     THEN UNCHANGED <<isSaving, pendingSaves>>
     ELSE /\ isSaving' = TRUE
          /\ pendingSaves' = Append(pendingSaves,
               [status |-> "decoding", imageData |-> imageData, imageType |-> imageType,
                brightness |-> adj.brightness, contrast |-> adj.contrast,
                saturation |-> adj.saturation, rotation |-> rotation, flip |-> flip,
                completedCrop |-> completedCrop, textAnnotations |-> textAnnotations,
                adj |-> adj, selectedFilter |-> selectedFilter])
  /\ sinceReset' = FALSE
  /\ UNCHANGED <<storageReads, selectedFile, pendingReads>>
  /\ UNCHANGED <<storage, route, imageData, imageType, adj, selectedFilter, rotation,
                 flip, crop, completedCrop, scale, isCropping, drawSettings,
                 textAnnotations, newTextInput, isAddingText, selectedText,
                 drawingState, drawCanvas, pendingLoads, pendingCrops, downloads,
                 completions, applied, rotateSum>>

\* scaledCrop of handleSave, in hundredths of a pixel: (completedCrop / 100) * canvas size.
scaledCropSave(c, W, H) ==
  [x |-> c.x * W, y |-> c.y * H, width |-> c.width * W, height |-> c.height * H]

\* The crop step of handleSave ends in ctx.drawImage(croppedCanvas, 0, 0), which
\* throws InvalidStateError for a canvas without pixels.
CropStepThrows(p) ==
  /\ p.completedCrop # Null
  /\ \/ CanvasSize(scaledCropSave(p.completedCrop, p.imageData.w, p.imageData.h).width) = 0
     \/ CanvasSize(scaledCropSave(p.completedCrop, p.imageData.w, p.imageData.h).height) = 0

\* The text step reads imageRef.current!.width once per annotation; the image
\* element behind imageRef is mounted only outside crop mode.
TextStepThrows(p) == Len(p.textAnnotations) > 0 /\ isCropping

\* ctx.filter.  A new context, and a context whose canvas has just been
\* resized, has the filter 'none', which leaves pixels as they are: it is held
\* here as the tone filter with every value at 100%.
NoFilter == [brightness |-> 100, contrast |-> 100, saturation |-> 100]
\* ctx.filter, were the export to add the highlights as the preview does.
ToneFilterWithHighlights(p) ==
  [brightness |-> p.brightness + p.adj.highlights \div 2, contrast |-> p.contrast,
   saturation |-> p.saturation]

ToneFilter(p) ==
  [brightness |-> p.brightness, contrast |-> p.contrast, saturation |-> p.saturation]

\* rotation !== 0 || flip.horizontal || flip.vertical
Transformed(p) == p.rotation # 0 \/ p.flip.horizontal \/ p.flip.vertical

\* The translate / rotate / scale / translate block, as the list of
\* rotate-and-flip transforms it adds to the context (none or one).
TransformBlock(p) ==
  IF Transformed(p) THEN <<[rotation |-> p.rotation, flip |-> p.flip]>> ELSE <<>>

\* The drawImage calls that put the decoded image on the canvas: the first
\* runs before ctx.filter is assigned, the second only in the transform block.
ImageDraws(p) ==
  <<[filter |-> NoFilter, transforms |-> <<>>]>> \o
  (IF Transformed(p)
   THEN <<[filter |-> ToneFilter(p), transforms |-> TransformBlock(p)]>>
   ELSE <<>>)

\* The context state the annotation steps start from.  The transform block
\* of the image is not wrapped in save / restore; the crop step assigns
\* canvas.width, which resets the context.
FilterAfterImage(p) == IF p.completedCrop # Null THEN NoFilter ELSE ToneFilter(p)
TransformsAfterImage(p) == IF p.completedCrop # Null THEN <<>> ELSE TransformBlock(p)

\* An exact quotient num / den.
Frac(num, den) == [num |-> num, den |-> den]

\* One fillText call of the text step on a W by H canvas, with display the
\* size of the element behind imageRef.
\* The text step, were it to scale both coordinates by the smaller factor.
DrawnTextUniform(a, p, W, H, display) ==
  LET byWidth == W * display.height <= H * display.width
      num == IF byWidth THEN W ELSE H
      den == IF byWidth THEN display.width ELSE display.height
  IN [annotation |-> a,
      x |-> Frac(a.x * num, den),
      y |-> Frac(a.y * num, den),
      font |-> Frac(a.fontSize * num, den),
      filter |-> FilterAfterImage(p),
      transforms |-> TransformsAfterImage(p) \o TransformBlock(p)]

DrawnText(a, p, W, H, display) ==
  [annotation |-> a,
   x |-> Frac(a.x * W, display.width),
   y |-> Frac(a.y * H, display.height),
   font |-> IF W * display.height <= H * display.width
            THEN Frac(a.fontSize * W, display.width)
            ELSE Frac(a.fontSize * H, display.height),
   filter |-> FilterAfterImage(p),
   transforms |-> TransformsAfterImage(p) \o TransformBlock(p)]

\* The drawing steps of img.onload of handleSave, in the order in which the
\* callback runs them; the text step runs once per annotation.
ExportStepsCropLast(p) ==
  <<"draw">>
  \o (IF Transformed(p) THEN <<"redraw">> ELSE <<>>)
  \o (IF drawCanvas # Null THEN <<"strokes">> ELSE <<>>)
  \o [k \in DOMAIN p.textAnnotations |-> "text"]
  \o (IF p.completedCrop # Null THEN <<"crop">> ELSE <<>>)

ExportSteps(p) ==
  <<"draw">>
  \o (IF Transformed(p) THEN <<"redraw">> ELSE <<>>)
  \o (IF p.completedCrop # Null THEN <<"crop">> ELSE <<>>)
  \o (IF drawCanvas # Null THEN <<"strokes">> ELSE <<>>)
  \o [k \in DOMAIN p.textAnnotations |-> "text"]

\* The file that link.click() downloads, with what was drawn into it.
\* surface is the canvas against which the crop step resolves the rectangle.
ExportedFile(p) ==
  LET region == IF p.completedCrop = Null THEN Null
                ELSE scaledCropSave(p.completedCrop, p.imageData.w, p.imageData.h)
      W == IF region = Null THEN p.imageData.w ELSE CanvasSize(region.width)
      H == IF region = Null THEN p.imageData.h ELSE CanvasSize(region.height)
  IN [image |-> p.imageData,
      type |-> p.imageType,
      width |-> W,
      height |-> H,
      surface |-> [width |-> p.imageData.w, height |-> p.imageData.h],
      draws |-> ImageDraws(p),
      steps |-> ExportSteps(p),
      region |-> region,
      ink |-> IF drawCanvas = Null THEN FALSE ELSE drawCanvas.ink,
      strokes |-> IF drawCanvas = Null THEN Null
                  ELSE [filter |-> FilterAfterImage(p),
                        transforms |-> TransformsAfterImage(p) \o TransformBlock(p)],
      texts |-> [k \in DOMAIN p.textAnnotations |->
                   DrawnText(p.textAnnotations[k], p, W, H, Displayed(imageData))]]

\* img.onload of handleSave.  An exception leaves the callback before
\* link.click() and before the timer that clears isSaving is set.
SaveOnload(i) ==
  /\ i \in DOMAIN pendingSaves
  /\ pendingSaves[i].status = "decoding"
  /\ Decodable(pendingSaves[i].imageData)
  /\ IF CropStepThrows(pendingSaves[i]) \/ TextStepThrows(pendingSaves[i])
     THEN /\ pendingSaves' = [pendingSaves EXCEPT ![i].status = "threw"]
          /\ UNCHANGED downloads
     ELSE /\ pendingSaves' = [pendingSaves EXCEPT ![i].status = "timer"]
          /\ downloads' = Append(downloads, ExportedFile(pendingSaves[i]))
  /\ sinceReset' = sinceReset
  /\ UNCHANGED <<storageReads, selectedFile, pendingReads>>
  /\ UNCHANGED <<storage, route, imageData, imageType, adj, selectedFilter, rotation,
                 flip, crop, completedCrop, scale, isCropping, isSaving, drawSettings,
                 textAnnotations, newTextInput, isAddingText, selectedText,
                 drawingState, drawCanvas, pendingLoads, pendingCrops, completions,
                 applied, saveCalls, rotateSum>>

\* The decode started by handleSave fails: no onerror is registered.
SaveOnerror(i) ==
  /\ i \in DOMAIN pendingSaves
  /\ pendingSaves[i].status = "decoding"
  /\ ~Decodable(pendingSaves[i].imageData)
  /\ pendingSaves' = [pendingSaves EXCEPT ![i].status = "failed"]
  /\ sinceReset' = sinceReset
  /\ UNCHANGED <<storageReads, selectedFile, pendingReads>>
  /\ UNCHANGED <<storage, route, imageData, imageType, adj, selectedFilter, rotation,
                 flip, crop, completedCrop, scale, isCropping, isSaving, drawSettings,
                 textAnnotations, newTextInput, isAddingText, selectedText,
                 drawingState, drawCanvas, pendingLoads, pendingCrops, downloads,
                 completions, applied, saveCalls, rotateSum>>

\* The setTimeout callback of handleSave's img.onload.
SaveTimer(i) ==
  /\ i \in DOMAIN pendingSaves
  /\ pendingSaves[i].status = "timer"
  /\ isSaving' = FALSE
  /\ pendingSaves' = RemoveAt(pendingSaves, i)
  /\ sinceReset' = sinceReset
  /\ UNCHANGED <<storageReads, selectedFile, pendingReads>>
  /\ UNCHANGED <<storage, route, imageData, imageType, adj, selectedFilter, rotation,
                 flip, crop, completedCrop, scale, isCropping, drawSettings,
                 textAnnotations, newTextInput, isAddingText, selectedText,
                 drawingState, drawCanvas, pendingLoads, pendingCrops, downloads,
                 completions, applied, saveCalls, rotateSum>>

(***************************************************************************)
(* Draw panel: pen strokes and text annotations.                           *)
(***************************************************************************)
SelectPen ==
  /\ Rendered
  /\ drawSettings' = [drawSettings EXCEPT !.tool = "pen"]
  /\ sinceReset' = FALSE
  /\ UNCHANGED <<storageReads, selectedFile, pendingReads>>
  /\ UNCHANGED <<storage, route, imageData, imageType, adj, selectedFilter, rotation,
                 flip, crop, completedCrop, scale, isCropping, isSaving,
                 textAnnotations, newTextInput, isAddingText, selectedText,
                 drawingState, drawCanvas, pendingLoads, pendingCrops, pendingSaves,
                 downloads, completions, applied, saveCalls, rotateSum>>

SelectTextTool ==
  /\ Rendered
  /\ drawSettings' = [drawSettings EXCEPT !.tool = "text"]
  /\ isAddingText' = TRUE
  /\ sinceReset' = FALSE
  /\ UNCHANGED <<storageReads, selectedFile, pendingReads>>
  /\ UNCHANGED <<storage, route, imageData, imageType, adj, selectedFilter, rotation,
                 flip, crop, completedCrop, scale, isCropping, isSaving,
                 textAnnotations, newTextInput, selectedText,
                 drawingState, drawCanvas, pendingLoads, pendingCrops, pendingSaves,
                 downloads, completions, applied, saveCalls, rotateSum>>

\* The "Text to Add" input, shown while the text tool is selected.
SetNewTextInput(t) ==
  /\ Rendered
  /\ drawSettings.tool = "text"
  /\ newTextInput' = t
  /\ sinceReset' = FALSE
  /\ UNCHANGED <<storageReads, selectedFile, pendingReads>>
  /\ UNCHANGED <<storage, route, imageData, imageType, adj, selectedFilter, rotation,
                 flip, crop, completedCrop, scale, isCropping, isSaving, drawSettings,
                 textAnnotations, isAddingText, selectedText,
                 drawingState, drawCanvas, pendingLoads, pendingCrops, pendingSaves,
                 downloads, completions, applied, saveCalls, rotateSum>>

\* The pen canvas and the text overlay are laid out only outside crop mode,
\* over an image that has a size.
OverlayShown == Rendered /\ ~isCropping /\ Decodable(imageData)

\* The bounds test, were it to let every position pass.
InBoundsAlways(x, y, width, height) == TRUE

\* x >= 0 && x <= width && y >= 0 && y <= height
InBounds(x, y, width, height) == x >= 0 /\ x <= width /\ y >= 0 /\ y <= height

\* The placement, were it to put the new annotation first.
PlaceTextFirst(x, y) ==
  /\ OverlayShown
  /\ isAddingText
  /\ Len(textAnnotations) < MaxTexts
  /\ IF /\ InBounds(x, y, Displayed(imageData).width, Displayed(imageData).height)
        /\ newTextInput # ""
     THEN /\ textAnnotations' = <<[x |-> x, y |-> y, text |-> newTextInput,
                                 color |-> drawSettings.color,
                                 fontSize |-> drawSettings.size * 2,
                                 width |-> 0, height |-> 0,
                                 created |-> Len(textAnnotations) + 1]>>
                               \o textAnnotations
          /\ newTextInput' = ""
          /\ isAddingText' = FALSE
          /\ drawSettings' = [drawSettings EXCEPT !.tool = "none"]
     ELSE UNCHANGED <<textAnnotations, newTextInput, isAddingText, drawSettings>>
  /\ sinceReset' = FALSE
  /\ UNCHANGED <<storageReads, selectedFile, pendingReads>>
  /\ UNCHANGED <<storage, route, imageData, imageType, adj, selectedFilter, rotation,
                 flip, crop, completedCrop, scale, isCropping, isSaving, selectedText,
                 drawingState, drawCanvas, pendingLoads, pendingCrops, pendingSaves,
                 downloads, completions, applied, saveCalls, rotateSum>>

\* onClick of the text input overlay; (x, y) is the click relative to it.
\* width and height are optional in the code (0 here while unset); created
\* numbers the annotations of the list in the order they were made.
PlaceText(x, y) ==
  /\ OverlayShown
  /\ isAddingText
  /\ Len(textAnnotations) < MaxTexts
  /\ IF /\ InBounds(x, y, Displayed(imageData).width, Displayed(imageData).height)
        /\ newTextInput # ""
     THEN /\ textAnnotations' = Append(textAnnotations,
                                       [x |-> x, y |-> y, text |-> newTextInput,
                                        color |-> drawSettings.color,
                                        fontSize |-> drawSettings.size * 2,
                                        width |-> 0, height |-> 0,
                                        created |-> Len(textAnnotations) + 1])
          /\ newTextInput' = ""
          /\ isAddingText' = FALSE
          /\ drawSettings' = [drawSettings EXCEPT !.tool = "none"]
     ELSE UNCHANGED <<textAnnotations, newTextInput, isAddingText, drawSettings>>
  /\ sinceReset' = FALSE
  /\ UNCHANGED <<storageReads, selectedFile, pendingReads>>
  /\ UNCHANGED <<storage, route, imageData, imageType, adj, selectedFilter, rotation,
                 flip, crop, completedCrop, scale, isCropping, isSaving, selectedText,
                 drawingState, drawCanvas, pendingLoads, pendingCrops, pendingSaves,
                 downloads, completions, applied, saveCalls, rotateSum>>

\* onSelect of a ResizableText (its mouse-down).
SelectText(index) ==
  /\ OverlayShown
  /\ index \in DOMAIN textAnnotations
  /\ selectedText' = index
  /\ sinceReset' = FALSE
  /\ UNCHANGED <<storageReads, selectedFile, pendingReads>>
  /\ UNCHANGED <<storage, route, imageData, imageType, adj, selectedFilter, rotation,
                 flip, crop, completedCrop, scale, isCropping, isSaving, drawSettings,
                 textAnnotations, newTextInput, isAddingText,
                 drawingState, drawCanvas, pendingLoads, pendingCrops, pendingSaves,
                 downloads, completions, applied, saveCalls, rotateSum>>

handleTextMove(index, x, y) ==
  /\ OverlayShown
  /\ index \in DOMAIN textAnnotations
  /\ textAnnotations' = [textAnnotations EXCEPT ![index].x = x, ![index].y = y]
  /\ sinceReset' = FALSE
  /\ UNCHANGED <<storageReads, selectedFile, pendingReads>>
  /\ UNCHANGED <<storage, route, imageData, imageType, adj, selectedFilter, rotation,
                 flip, crop, completedCrop, scale, isCropping, isSaving, drawSettings,
                 newTextInput, isAddingText, selectedText,
                 drawingState, drawCanvas, pendingLoads, pendingCrops, pendingSaves,
                 downloads, completions, applied, saveCalls, rotateSum>>

\* Math.round(a / b) for a >= 0, b > 0.
Round(a, b) == (2 * a + b) \div (2 * b)

\* onResize of a ResizableText (its resize handle is shown while it is selected).
handleTextResize(index, width, height) ==
  /\ OverlayShown
  /\ index \in DOMAIN textAnnotations
  /\ selectedText = index
  /\ textAnnotations' =
       [textAnnotations EXCEPT
          ![index].width = width,
          ![index].height = height,
          ![index].fontSize =
             LET old == textAnnotations[index]
             IN Round(old.fontSize * width, IF old.width # 0 THEN old.width ELSE width)]
  /\ sinceReset' = FALSE
  /\ UNCHANGED <<storageReads, selectedFile, pendingReads>>
  /\ UNCHANGED <<storage, route, imageData, imageType, adj, selectedFilter, rotation,
                 flip, crop, completedCrop, scale, isCropping, isSaving, drawSettings,
                 newTextInput, isAddingText, selectedText,
                 drawingState, drawCanvas, pendingLoads, pendingCrops, pendingSaves,
                 downloads, completions, applied, saveCalls, rotateSum>>

\* The pen canvas receives pointer events while it is displayed (tool = pen)
\* and not covered by the text input overlay.
PenCanvasShown ==
  OverlayShown /\ drawCanvas # Null /\ drawSettings.tool = "pen" /\ ~isAddingText

\* A pointer offset in CSS pixels, as a canvas coordinate.
CanvasX(ox) == (ox * drawCanvas.width) \div Displayed(imageData).width
CanvasY(oy) == (oy * drawCanvas.height) \div Displayed(imageData).height

CanvasMouseDown(ox, oy) ==
  /\ PenCanvasShown
  /\ drawingState' =
       IF InBounds(CanvasX(ox), CanvasY(oy), drawCanvas.width, drawCanvas.height)
       THEN [isDrawing |-> TRUE, lastX |-> CanvasX(ox), lastY |-> CanvasY(oy)]
       ELSE drawingState
  /\ sinceReset' = FALSE
  /\ UNCHANGED <<storageReads, selectedFile, pendingReads>>
  /\ UNCHANGED <<storage, route, imageData, imageType, adj, selectedFilter, rotation,
                 flip, crop, completedCrop, scale, isCropping, isSaving, drawSettings,
                 textAnnotations, newTextInput, isAddingText, selectedText,
                 drawCanvas, pendingLoads, pendingCrops, pendingSaves,
                 downloads, completions, applied, saveCalls, rotateSum>>

CanvasMouseMove(ox, oy) ==
  /\ PenCanvasShown
  /\ IF /\ drawingState.isDrawing
        /\ drawSettings.tool = "pen"
        /\ InBounds(CanvasX(ox), CanvasY(oy), drawCanvas.width, drawCanvas.height)
     THEN /\ drawCanvas' = [drawCanvas EXCEPT !.ink = TRUE]
          /\ drawingState' = [drawingState EXCEPT !.lastX = CanvasX(ox),
                                                  !.lastY = CanvasY(oy)]
     ELSE UNCHANGED <<drawCanvas, drawingState>>
  /\ sinceReset' = FALSE
  /\ UNCHANGED <<storageReads, selectedFile, pendingReads>>
  /\ UNCHANGED <<storage, route, imageData, imageType, adj, selectedFilter, rotation,
                 flip, crop, completedCrop, scale, isCropping, isSaving, drawSettings,
                 textAnnotations, newTextInput, isAddingText, selectedText,
                 pendingLoads, pendingCrops, pendingSaves,
                 downloads, completions, applied, saveCalls, rotateSum>>

\* onMouseUp and onMouseOut of the pen canvas.
stopDrawing ==
  /\ PenCanvasShown
  /\ drawingState' = [drawingState EXCEPT !.isDrawing = FALSE]
  /\ sinceReset' = FALSE
  /\ UNCHANGED <<storageReads, selectedFile, pendingReads>>
  /\ UNCHANGED <<storage, route, imageData, imageType, adj, selectedFilter, rotation,
                 flip, crop, completedCrop, scale, isCropping, isSaving, drawSettings,
                 textAnnotations, newTextInput, isAddingText, selectedText,
                 drawCanvas, pendingLoads, pendingCrops, pendingSaves,
                 downloads, completions, applied, saveCalls, rotateSum>>

(***************************************************************************)
(* Preview: the style getImageStyles gives the displayed image.            *)
(***************************************************************************)
\* One CSS filter function of the filter string; value is in tenths of the
\* unit the function takes (%, px or deg).
Fn(name, value) == [fn |-> name, value |-> value]

\* The filter strings of the presets modelled here.
FILTERS ==
  [none |-> <<>>,
   grayscale |-> <<Fn("grayscale", 1000)>>]

\* getImageStyles().filter for the adjustment cells a and the preset f: the
\* entries that are not empty, joined in the order of the array.
\* The filter string, were the preset to come first.
getImageStylesFilterPresetFirst(a, f) ==
  (IF f # NoString THEN FILTERS[f] ELSE <<>>)
  \o <<Fn("brightness", 10 * a.brightness),
    Fn("contrast", 10 * a.contrast),
    Fn("saturate", 10 * a.saturation),
    Fn("blur", 10 * a.blur),
    Fn("sepia", 10 * a.sepia),
    Fn("hue-rotate", 10 * a.hue)>>
  \o (IF a.sharpen > 0
      THEN <<Fn("contrast", 10 * (100 + a.sharpen * 2)),
             Fn("brightness", 10 * (100 + a.sharpen))>>
      ELSE <<>>)
  \o (IF a.highlights # 0 THEN <<Fn("brightness", 1000 + 5 * a.highlights)>> ELSE <<>>)
  \o (IF a.shadows # 0 THEN <<Fn("brightness", 1000 - 5 * a.shadows)>> ELSE <<>>)
  \o (IF a.clarity # 0
      THEN <<Fn("contrast", 10 * (100 + a.clarity)),
             Fn("brightness", 1000 - 5 * a.clarity)>>
      ELSE <<>>)
  \o (IF a.vibrance # 0 THEN <<Fn("saturate", 10 * (100 + a.vibrance))>> ELSE <<>>)

getImageStylesFilter(a, f) ==
  <<Fn("brightness", 10 * a.brightness),
    Fn("contrast", 10 * a.contrast),
    Fn("saturate", 10 * a.saturation),
    Fn("blur", 10 * a.blur),
    Fn("sepia", 10 * a.sepia),
    Fn("hue-rotate", 10 * a.hue)>>
  \o (IF a.sharpen > 0
      THEN <<Fn("contrast", 10 * (100 + a.sharpen * 2)),
             Fn("brightness", 10 * (100 + a.sharpen))>>
      ELSE <<>>)
  \o (IF a.highlights # 0 THEN <<Fn("brightness", 1000 + 5 * a.highlights)>> ELSE <<>>)
  \o (IF a.shadows # 0 THEN <<Fn("brightness", 1000 - 5 * a.shadows)>> ELSE <<>>)
  \o (IF a.clarity # 0
      THEN <<Fn("contrast", 10 * (100 + a.clarity)),
             Fn("brightness", 1000 - 5 * a.clarity)>>
      ELSE <<>>)
  \o (IF a.vibrance # 0 THEN <<Fn("saturate", 10 * (100 + a.vibrance))>> ELSE <<>>)
  \o (IF f # NoString THEN FILTERS[f] ELSE <<>>)

(***************************************************************************)
(* ImageUploader (the upload screen).                                      *)
(***************************************************************************)
\* handleImageUpload and handleDrop both end in processFile.  The drop zone and
\* the file input are rendered only while no image is selected.
processFile(file) ==
  /\ route = "home"
  /\ selectedFile = Null
  /\ selectedFile' = file
  /\ sinceReset' = sinceReset
  /\ UNCHANGED <<storageReads, pendingReads>>
  /\ UNCHANGED <<storage, route, imageData, imageType, adj, selectedFilter, rotation,
                 flip, crop, completedCrop, scale, isCropping, isSaving, drawSettings,
                 textAnnotations, newTextInput, isAddingText, selectedText,
                 drawingState, drawCanvas, pendingLoads, pendingCrops, pendingSaves,
                 downloads, completions, applied, saveCalls, rotateSum>>

resetUpload ==
  /\ route = "home"
  /\ selectedFile # Null
  /\ selectedFile' = Null
  /\ sinceReset' = sinceReset
  /\ UNCHANGED <<storageReads, pendingReads>>
  /\ UNCHANGED <<storage, route, imageData, imageType, adj, selectedFilter, rotation,
                 flip, crop, completedCrop, scale, isCropping, isSaving, drawSettings,
                 textAnnotations, newTextInput, isAddingText, selectedText,
                 drawingState, drawCanvas, pendingLoads, pendingCrops, pendingSaves,
                 downloads, completions, applied, saveCalls, rotateSum>>

\* The Edit button: starts reading the selected file; reader.onloadend holds
\* the file of the render in which the button was clicked.
handleEdit ==
  /\ route = "home"
  /\ Len(pendingReads) < MaxReads
  /\ pendingReads' = IF selectedFile # Null THEN Append(pendingReads, selectedFile)
                     ELSE pendingReads
  /\ sinceReset' = sinceReset
  /\ UNCHANGED <<storageReads, selectedFile>>
  /\ UNCHANGED <<storage, route, imageData, imageType, adj, selectedFilter, rotation,
                 flip, crop, completedCrop, scale, isCropping, isSaving, drawSettings,
                 textAnnotations, newTextInput, isAddingText, selectedText,
                 drawingState, drawCanvas, pendingLoads, pendingCrops, pendingSaves,
                 downloads, completions, applied, saveCalls, rotateSum>>

\* reader.onloadend: writes the two hand-off entries and navigates to the
\* editor.  Coming from the upload screen the editor page mounts (every cell
\* at its useState value) and the uploader unmounts; on the editor page
\* router.push('/edit') changes nothing.
ReaderOnloadend(i) ==
  /\ i \in DOMAIN pendingReads
  /\ storage' = [editImageData |-> pendingReads[i].image,
                 editImageType |-> pendingReads[i].type]
  /\ pendingReads' = RemoveAt(pendingReads, i)
  /\ route' = "edit"
  /\ IF route = "home"
     THEN /\ selectedFile' = Null
          /\ imageData' = Null
          /\ imageType' = NoString
          /\ adj' = AdjDefault
          /\ selectedFilter' = NoString
          /\ rotation' = 0
          /\ flip' = DefaultFlip
          /\ crop' = DefaultCrop
          /\ completedCrop' = Null
          /\ scale' = 100
          /\ isCropping' = FALSE
          /\ isSaving' = FALSE
          /\ drawSettings' = InitialDrawSettings
          /\ textAnnotations' = <<>>
          /\ newTextInput' = ""
          /\ isAddingText' = FALSE
          /\ selectedText' = 0
          /\ drawingState' = InitialDrawingState
          /\ drawCanvas' = Null
          /\ pendingLoads' = <<>>
          /\ pendingCrops' = <<>>
          /\ pendingSaves' = <<>>
          /\ rotateSum' = 0
          /\ sinceReset' = FALSE
          /\ storageReads' = {}
     ELSE UNCHANGED <<selectedFile, imageData, imageType, adj, selectedFilter, rotation,
                      flip, crop, completedCrop, scale, isCropping, isSaving,
                      drawSettings, textAnnotations, newTextInput, isAddingText,
                      selectedText, drawingState, drawCanvas, pendingLoads,
                      pendingCrops, pendingSaves, rotateSum, sinceReset, storageReads>>
  /\ UNCHANGED <<downloads, completions, applied, saveCalls>>

(***************************************************************************)
(* Specifications.                                                         *)
(***************************************************************************)
LoadCallbacks ==
  \/ InitEffect
  \/ \E i \in 1..MaxPending : ImageLoadOnload(i)
  \/ \E i \in 1..MaxPending : ImageLoadOnerror(i)

CropCallbacks ==
  \/ \E i \in 1..MaxPending : FinishCropOnload(i)
  \/ \E i \in 1..MaxPending : FinishCropOnerror(i)

SaveCallbacks ==
  \/ \E i \in 1..MaxSaves + 1 : SaveOnload(i)
  \/ \E i \in 1..MaxSaves + 1 : SaveOnerror(i)
  \/ \E i \in 1..MaxSaves + 1 : SaveTimer(i)

Callbacks == LoadCallbacks \/ CropCallbacks \/ SaveCallbacks

Uploader ==
  \/ \E file \in Files : processFile(file)
  \/ resetUpload
  \/ handleEdit
  \/ \E i \in 1..MaxReads : ReaderOnloadend(i)

AdjustPanel ==
  \/ \E f \in DOMAIN SliderRange : \E v \in SliderRange[f] : SetAdjustment(f, v)
  \/ \E name \in FilterNames : SelectFilter(name)

RotateFlip ==
  \/ \E d \in RotateAngles : handleRotate(d)
  \/ FlipHorizontal
  \/ FlipVertical

CropFlow ==
  \/ StartCrop
  \/ \E c \in CropInputs : CropChange(c)
  \/ \E c \in CropInputs : CropComplete(c)
  \/ \E z \in ZoomInputs : SetZoom(z)
  \/ finishCrop

TextTool ==
  \/ SelectTextTool
  \/ \E t \in TextInputs : SetNewTextInput(t)
  \/ \E x, y \in PointerOffsets : PlaceText(x, y)
  \/ \E i \in 1..MaxTexts : SelectText(i)
  \/ \E i \in 1..MaxTexts : \E x, y \in PointerOffsets : handleTextMove(i, x, y)

TextResize ==
  \E i \in 1..MaxTexts : \E r \in ResizeInputs : handleTextResize(i, r.width, r.height)

PenTool ==
  \/ SelectPen
  \/ \E x, y \in PointerOffsets : CanvasMouseDown(x, y)
  \/ \E x, y \in PointerOffsets : CanvasMouseMove(x, y)
  \/ stopDrawing

\* Every handler and callback of the page.
Next ==
  \/ Callbacks
  \/ AdjustPanel
  \/ RotateFlip
  \/ CropFlow
  \/ handleReset
  \/ handleSave
  \/ TextTool
  \/ TextResize
  \/ PenTool
  \/ Uploader

Spec == Init /\ [][Next]_vars

\* The crop flow with export and reset: the user works in crop mode and
\* with the header buttons.
NextCrop == Callbacks \/ CropFlow \/ handleReset \/ handleSave
SpecCrop == Init /\ [][NextCrop]_vars

\* Commit, export and reset: as NextCrop, with the rectangle and the zoom
\* left as ReactCrop and the slider first show them.
NextCommit ==
  \/ Callbacks
  \/ StartCrop
  \/ \E c \in CropInputs : CropComplete(c)
  \/ finishCrop
  \/ handleReset
  \/ handleSave
SpecCommit == Init /\ [][NextCommit]_vars

\* SpecCommit with its scheduling: the browser runs every decode callback and
\* timer that is due, and the user clicks Download whenever it is enabled.
SpecCommitFair ==
  /\ SpecCommit
  /\ WF_vars(Callbacks)
  /\ WF_vars(handleSave)

\* Export of an adjusted, rotated and flipped image.
NextTone ==
  \/ InitEffect
  \/ \E i \in 1..MaxPending : ImageLoadOnload(i)
  \/ \E f \in {"brightness", "highlights"} :
        \E v \in SliderRange[f] : SetAdjustment(f, v)
  \/ SelectFilter("grayscale")
  \/ handleRotate(90)
  \/ FlipHorizontal
  \/ handleSave
  \/ \E i \in 1..MaxSaves + 1 : SaveOnload(i)
  \/ \E i \in 1..MaxSaves + 1 : SaveTimer(i)
SpecTone == Init /\ [][NextTone]_vars

\* Text annotations and their export.
NextText ==
  \/ InitEffect
  \/ \E i \in 1..MaxPending : ImageLoadOnload(i)
  \/ SelectTextTool
  \/ \E t \in TextInputs : SetNewTextInput(t)
  \/ \E x \in PointerOffsets : PlaceText(x, 10)
  \/ \E i \in 1..MaxTexts : SelectText(i)
  \/ handleTextMove(1, 20, 30)
  \/ \E i \in 1..MaxTexts : handleTextResize(i, 40, 20)
  \/ handleSave
  \/ \E i \in 1..MaxSaves + 1 : SaveOnload(i)
  \/ \E i \in 1..MaxSaves + 1 : SaveTimer(i)
SpecText == Init /\ [][NextText]_vars

\* Crop commit and export of a rotated image.
NextRotatedCrop ==
  \/ InitEffect
  \/ \E i \in 1..MaxPending : ImageLoadOnload(i)
  \/ handleRotate(90)
  \/ StartCrop
  \/ \E c \in CropInputs : CropComplete(c)
  \/ finishCrop
  \/ \E i \in 1..MaxPending : FinishCropOnload(i)
  \/ handleSave
  \/ \E i \in 1..MaxSaves + 1 : SaveOnload(i)
  \/ \E i \in 1..MaxSaves + 1 : SaveTimer(i)
SpecRotatedCrop == Init /\ [][NextRotatedCrop]_vars

\* An editing session from the upload screen to the editor and back.
NextSession ==
  \/ InitEffect
  \/ \E i \in 1..MaxPending : ImageLoadOnload(i)
  \/ processFile([image |-> OtherImage, type |-> OtherType])
  \/ handleEdit
  \/ \E i \in 1..MaxReads : ReaderOnloadend(i)
  \/ StartCrop
  \/ CropComplete(CenterBand)
  \/ finishCrop
  \/ \E i \in 1..MaxPending : FinishCropOnload(i)
  \/ handleReset
SpecSession == Init /\ [][NextSession]_vars

\* Export of a flipped image with a rectangle and a text annotation.
NextOrder ==
  \/ InitEffect
  \/ \E i \in 1..MaxPending : ImageLoadOnload(i)
  \/ FlipHorizontal
  \/ StartCrop
  \/ CropComplete(CenterBand)
  \/ handleReset
  \/ SelectTextTool
  \/ SetNewTextInput("hi")
  \/ PlaceText(10, 10)
  \/ handleSave
  \/ \E i \in 1..MaxSaves + 1 : SaveOnload(i)
  \/ \E i \in 1..MaxSaves + 1 : SaveTimer(i)
SpecOrder == Init /\ [][NextOrder]_vars

\* The pen, the other tools and reset.
NextPen ==
  \/ InitEffect
  \/ \E i \in 1..MaxPending : ImageLoadOnload(i)
  \/ PenTool
  \/ SelectTextTool
  \/ StartCrop
  \/ finishCrop
  \/ handleReset
SpecPen == Init /\ [][NextPen]_vars

\* Zoom in crop mode, commit, cancel and reset.
NextZoom ==
  \/ InitEffect
  \/ \E i \in 1..MaxPending : ImageLoadOnload(i)
  \/ StartCrop
  \/ CropComplete(CenterBand)
  \/ \E z \in ZoomInputs : SetZoom(z)
  \/ finishCrop
  \/ \E i \in 1..MaxPending : FinishCropOnload(i)
  \/ handleReset
SpecZoom == Init /\ [][NextZoom]_vars

\* The Adjust panel and the quick filters.
NextStyle ==
  \/ InitEffect
  \/ \E i \in 1..MaxPending : ImageLoadOnload(i)
  \/ \E f \in DOMAIN SliderRange : \E v \in SliderRange[f] : SetAdjustment(f, v)
  \/ \E name \in FilterNames : SelectFilter(name)
SpecStyle == Init /\ [][NextStyle]_vars

\* Crop mode, commit, reset and export.
NextIdle ==
  \/ InitEffect
  \/ \E i \in 1..MaxPending : ImageLoadOnload(i)
  \/ StartCrop
  \/ CropComplete(CenterBand)
  \/ finishCrop
  \/ \E i \in 1..MaxPending : FinishCropOnload(i)
  \/ handleReset
  \/ handleSave
  \/ \E i \in 1..MaxSaves + 1 : SaveOnload(i)
  \/ \E i \in 1..MaxSaves + 1 : SaveTimer(i)
SpecIdle == Init /\ [][NextIdle]_vars

\* The upload screen, the mount of the editor and a reset in it.
NextUpload ==
  \/ InitEffect
  \/ \E i \in 1..MaxPending : ImageLoadOnload(i)
  \/ Uploader
  \/ handleRotate(90)
  \/ handleReset
SpecUpload == Init /\ [][NextUpload]_vars

\* Rotation and flips.
NextRotate ==
  \/ InitEffect
  \/ \E i \in 1..MaxPending : ImageLoadOnload(i)
  \/ RotateFlip
  \/ handleReset
SpecRotate == Init /\ [][NextRotate]_vars

\* Entering and leaving crop mode without a completed rectangle, over an
\* image that carries adjustments, a rotation, a flip, text and strokes.
NextCancel ==
  \/ InitEffect
  \/ \E i \in 1..MaxPending : ImageLoadOnload(i)
  \/ \E v \in SliderRange.brightness : SetAdjustment("brightness", v)
  \/ handleRotate(90)
  \/ FlipHorizontal
  \/ StartCrop
  \/ \E z \in ZoomInputs : SetZoom(z)
  \/ finishCrop
  \/ SelectTextTool
  \/ \E t \in TextInputs : SetNewTextInput(t)
  \/ \E x, y \in PointerOffsets : PlaceText(x, y)
  \/ \E i \in 1..MaxTexts : SelectText(i)
  \/ \E i \in 1..MaxTexts : handleTextMove(i, -5, 10)
  \/ PenTool
SpecCancel == Init /\ [][NextCancel]_vars

\* Export over text annotations, in and out of crop mode.
NextExport ==
  \/ InitEffect
  \/ \E i \in 1..MaxPending : ImageLoadOnload(i)
  \/ SelectTextTool
  \/ \E t \in TextInputs : SetNewTextInput(t)
  \/ \E x, y \in PointerOffsets : PlaceText(x, y)
  \/ \E i \in 1..MaxTexts : handleTextMove(i, -5, 10)
  \/ handleRotate(90)
  \/ StartCrop
  \/ finishCrop
  \/ handleSave
  \/ \E i \in 1..MaxSaves + 1 : SaveOnload(i)
  \/ \E i \in 1..MaxSaves + 1 : SaveTimer(i)
SpecExport == Init /\ [][NextExport]_vars

(***************************************************************************)
(* Properties.                                                             *)
(***************************************************************************)
\* No decode, timer or effect is waiting to run.
Quiescent ==
  /\ pendingLoads = <<>>
  /\ pendingCrops = <<>>
  /\ \A i \in DOMAIN pendingSaves : pendingSaves[i].status \notin {"decoding", "timer"}
  /\ ~(route = "edit" /\ imageData = Null)

\* The stroke content of the overlay: an unmounted canvas shows none.
HasInk(canvas) == canvas # Null /\ canvas.ink

\* Adjustment Set, Geometry and Annotation Layer at their defaults, and the
\* working image equal to the stored original.
ResetState ==
  /\ adj = AdjDefault
  /\ selectedFilter = NoString
  /\ rotation = 0
  /\ flip = DefaultFlip
  /\ crop = DefaultCrop
  /\ completedCrop = Null
  /\ scale = 100
  /\ ~isCropping
  /\ textAnnotations = <<>>
  /\ selectedText = 0
  /\ ~HasInk(drawCanvas)
  /\ imageData = storage.editImageData

\* C1: once handleReset has run and every pending callback has run with no
\* further user input, all adjustments, the geometry, the crop cells, the
\* annotations and the overlay are at their defaults and the working image
\* is the stored original.
C1_ResetRestoresAll == (sinceReset /\ Quiescent) => ResetState

\* C2: the stored rotation is the sum of the applied deltas modulo 360, as a
\* value in [0, 360).
C2_RotationNormalized == rotation \in 0..359 /\ rotation = rotateSum

\* C3: every export whose decode succeeded triggers its download (once) and
\* goes on to clear isSaving: no img.onload of handleSave ends before
\* link.click() and before the timer that clears isSaving is set.
C3_ExportCompletes ==
  \A i \in DOMAIN pendingSaves :
    /\ pendingSaves[i].status # "threw"
    /\ pendingSaves[i].status = "timer" => Len(downloads) >= 1

\* The region the crop-coordinate mapping names for rectangle c on a W by H
\* image, in hundredths of a pixel: (x/100*W, y/100*H, w/100*W, h/100*H),
\* clamped to the image.
ClampTo(v, max) == IF v < 0 THEN 0 ELSE IF v > max THEN max ELSE v
MappedRegion(c, W, H) ==
  [x |-> ClampTo(c.x * W, 100 * W),
   y |-> ClampTo(c.y * H, 100 * H),
   width |-> ClampTo(c.x * W + c.width * W, 100 * W) - ClampTo(c.x * W, 100 * W),
   height |-> ClampTo(c.y * H + c.height * H, 100 * H) - ClampTo(c.y * H, 100 * H)]

\* C4: the region a crop commit cuts out of the W by H working image, and
\* the region the crop step of an export cuts out of its W by H canvas, is
\* (x/100*W, y/100*H, w/100*W, h/100*H), clamped to the image.
C4_CropRegionMapping ==
  [][ /\ \A i \in DOMAIN pendingCrops :
           (FinishCropOnload(i) /\ imageData' # EmptyDataURL) =>
             imageData'.from[1].region =
               MappedRegion(pendingCrops[i].completedCrop,
                            pendingCrops[i].imageData.w, pendingCrops[i].imageData.h)
      /\ \A i \in DOMAIN pendingSaves :
           (SaveOnload(i) /\ Len(downloads') > Len(downloads)
              /\ pendingSaves[i].completedCrop # Null) =>
             downloads'[Len(downloads')].region =
               MappedRegion(pendingSaves[i].completedCrop,
                            pendingSaves[i].imageData.w, pendingSaves[i].imageData.h)
    ]_vars

\* C5: the click that commits a crop (finishCrop with a completed rectangle)
\* is itself the commit: in the same step the working image becomes the crop
\* of the working image current at the click and crop mode is left.
C5_CommitIsAtomic ==
  [][ (finishCrop /\ completedCrop # Null) =>
        /\ ~isCropping'
        /\ imageData' = croppedData([completedCrop |-> completedCrop, scale |-> scale,
                                     imageData |-> imageData])
    ]_vars

\* C6: every step from Idle into crop mode starts with the default rectangle.
C6_CropStartsAtDefault == [][ StartCrop => crop' = DefaultCrop ]_vars

AppliedTo(img, n) == \E a \in Lineage(img) : <<a, n>> \in applied

\* C8: a completed rectangle whose commit has replaced the working image is
\* consumed: neither the page nor the closure of a pending commit or export
\* holds that rectangle together with an image its commit produced.
C8_CropAppliedOnce ==
  /\ (imageData # Null /\ completedCrop # Null) => ~AppliedTo(imageData, completedCrop.n)
  /\ \A i \in DOMAIN pendingCrops :
       ~AppliedTo(pendingCrops[i].imageData, pendingCrops[i].completedCrop.n)
  /\ \A i \in DOMAIN pendingSaves :
       pendingSaves[i].completedCrop # Null =>
         ~AppliedTo(pendingSaves[i].imageData, pendingSaves[i].completedCrop.n)

\* A commit has replaced the working image and a new rectangle has been
\* completed over the cropped image.
C8_Witness ==
  /\ imageData # Null
  /\ \E a \in applied : a[1] = imageData
  /\ isCropping
  /\ completedCrop # Null

\* C9: handleSave with no image loaded changes no cell, starts no decode and
\* triggers no download.
C9_SaveWithoutImageIsNoOp ==
  [][ (handleSave /\ imageData = Null) =>
        UNCHANGED <<storage, route, imageData, imageType, adj, selectedFilter, rotation,
                    flip, crop, completedCrop, scale, isCropping, isSaving, drawSettings,
                    textAnnotations, newTextInput, isAddingText, selectedText,
                    drawingState, drawCanvas, pendingLoads, pendingCrops, pendingSaves,
                    downloads>>
    ]_vars

\* handleSave has been called with no image loaded.
C9_Witness ==
  /\ imageData = Null
  /\ saveCalls > 0
  /\ ~isSaving
  /\ pendingSaves = <<>>
  /\ downloads = <<>>

\* C10: an export whose decode failed does not stay in the saving state:
\* isSaving is false again, or a callback that can still clear it is pending.
C10_DecodeFailureEndsSaving ==
  \A i \in DOMAIN pendingSaves :
    pendingSaves[i].status = "failed" =>
      \/ ~isSaving
      \/ \E j \in DOMAIN pendingSaves : pendingSaves[j].status \in {"decoding", "timer"}

\* Exports whose decode is pending, and exports not yet finished (the decode
\* or the timer that clears isSaving is pending).
Decoding == {i \in DOMAIN pendingSaves : pendingSaves[i].status = "decoding"}
InFlight == {i \in DOMAIN pendingSaves : pendingSaves[i].status \in {"decoding", "timer"}}

\* C11 as stated: a second export request can be issued while an earlier one
\* is in flight: with the user clicking Download whenever the button lets
\* them, an export in flight leads to two export decodes pending at once.
C11_TwoExportsPending == (Decoding # {}) ~> (Cardinality(Decoding) >= 2)

\* C11 amended: while an export is in flight the Download button is
\* disabled, so no second request is issued: at most one export is in flight
\* and at most one export decode is pending at any time.
C11_OneExportInFlight ==
  /\ Cardinality(Decoding) <= 1
  /\ Cardinality(InFlight) <= 1
  /\ InFlight # {} => ~DownloadEnabled

\* An export decode is pending and Download is disabled.
C11_Witness == Decoding # {} /\ isSaving /\ downloads = <<>>

\* The fields of the Adjustment Set that the claim calls stylistic.
StylisticFields ==
  {"blur", "sepia", "hue", "sharpen", "highlights", "shadows", "clarity", "vibrance",
   "vignette"}

\* Settings of the stylistic fields and of the preset a second session can
\* differ in.
StyleChoices ==
  { AdjDefault,
    [AdjDefault EXCEPT !.highlights = 100],
    [AdjDefault EXCEPT !.clarity = 50, !.sharpen = 50],
    [AdjDefault EXCEPT !.blur = 3, !.sepia = 100, !.hue = 90, !.shadows = -100,
                       !.vibrance = 100, !.vignette = 50] }

\* The request of a session that agrees with request p on everything but
\* the stylistic fields, which it takes from a, and the preset, which is f.
OtherStyle(p, a, f) ==
  [p EXCEPT !.adj = [g \in DOMAIN p.adj |-> IF g \in StylisticFields THEN a[g] ELSE p.adj[g]],
            !.selectedFilter = f]

C13_ToneFilterAtEveryDraw ==
  [][ \A i \in DOMAIN pendingSaves :
        (SaveOnload(i) /\ Len(downloads') > Len(downloads)) =>
          \A k \in DOMAIN downloads'[Len(downloads')].draws :
            downloads'[Len(downloads')].draws[k].filter = ToneFilter(pendingSaves[i])
    ]_vars

\* C14: the export draws every text annotation of the request at
\* (dx * sx, dy * sy), sx being output width / displayed width and sy being
\* output height / displayed height.
C14_TextScaledPerAxis ==
  [][ \A i \in DOMAIN pendingSaves :
        (SaveOnload(i) /\ Len(downloads') > Len(downloads)) =>
          LET out == downloads'[Len(downloads')]
              box == Displayed(imageData)
              req == pendingSaves[i].textAnnotations
          IN /\ DOMAIN out.texts = DOMAIN req
             /\ \A k \in DOMAIN req :
                  /\ out.texts[k].x.num * box.width = req[k].x * out.width * out.texts[k].x.den
                  /\ out.texts[k].y.num * box.height = req[k].y * out.height * out.texts[k].y.den
                  /\ out.texts[k].x.den > 0
                  /\ out.texts[k].y.den > 0
    ]_vars

\* A file has been downloaded with a text in it, and the two scale factors
\* of that export differ.
C14_Witness ==
  /\ Len(downloads) > 0
  /\ Len(downloads[1].texts) > 0
  /\ imageData # Null
  /\ downloads[1].width * Displayed(imageData).height
       # downloads[1].height * Displayed(imageData).width
  /\ downloads[1].texts[1].x.num # 0
  /\ downloads[1].texts[1].y.num # 0

\* The annotations of list s are in the order of their creation.
InCreationOrder(s) ==
  \A i, j \in DOMAIN s : i < j => s[i].created < s[j].created

\* C15: the annotation list is always in creation order, a step that changes
\* it either appends one annotation or keeps length and order, and every
\* export draws its annotations in creation order.
C15_TextsInCreationOrder ==
  /\ [](/\ InCreationOrder(textAnnotations)
        /\ \A d \in DOMAIN downloads :
             InCreationOrder([k \in DOMAIN downloads[d].texts |->
                                downloads[d].texts[k].annotation]))
  /\ [][ textAnnotations' # textAnnotations =>
          \/ /\ Len(textAnnotations') = Len(textAnnotations) + 1
             /\ SubSeq(textAnnotations', 1, Len(textAnnotations)) = textAnnotations
          \/ /\ Len(textAnnotations') = Len(textAnnotations)
             /\ \A k \in DOMAIN textAnnotations :
                  textAnnotations'[k].created = textAnnotations[k].created
      ]_vars
  /\ [][ \A i \in DOMAIN pendingSaves :
          (SaveOnload(i) /\ Len(downloads') > Len(downloads)) =>
            [k \in DOMAIN downloads'[Len(downloads')].texts |->
               downloads'[Len(downloads')].texts[k].annotation]
              = pendingSaves[i].textAnnotations
      ]_vars

\* A file has been downloaded with two annotations in it, the earlier one
\* moved and the later one resized before the export.
C15_Witness ==
  /\ Len(downloads) > 0
  /\ Len(downloads[1].texts) = 2
  /\ downloads[1].texts[1].annotation.x = 20
  /\ downloads[1].texts[2].annotation.width = 40

\* C16: an export of the image that the commit of CenterBand at zoom 1 made
\* of the 200 by 100 image, with no rotation or flip, is 100 by 100 and its
\* source region begins at column 50 of the original.
C16_CenterBandExport ==
  [][ \A i \in DOMAIN pendingSaves :
        ( /\ SaveOnload(i)
          /\ Len(downloads') > Len(downloads)
          /\ pendingSaves[i].imageData
               = croppedData([completedCrop |-> CenterBand, scale |-> 100,
                              imageData |-> StoredImage])
          /\ pendingSaves[i].completedCrop = Null
          /\ ~Transformed(pendingSaves[i]) ) =>
            /\ downloads'[Len(downloads')].width = 100
            /\ downloads'[Len(downloads')].height = 100
            /\ downloads'[Len(downloads')].image.from[1].region.x = 50 * 100
    ]_vars

\* C17: with rotation 90 on the 200 by 100 image, the canvas whose size the
\* crop step of the export multiplies the percentages by, and the image the
\* crop commit cuts its region out of, are 100 wide and 200 high.
C17_RotatedCropSurface ==
  [][ /\ \A i \in DOMAIN pendingSaves :
           ( /\ SaveOnload(i)
             /\ Len(downloads') > Len(downloads)
             /\ pendingSaves[i].imageData = StoredImage
             /\ pendingSaves[i].rotation = 90
             /\ pendingSaves[i].completedCrop # Null ) =>
               downloads'[Len(downloads')].surface = [width |-> 100, height |-> 200]
      /\ \A i \in DOMAIN pendingCrops :
           ( /\ FinishCropOnload(i)
             /\ pendingCrops[i].imageData = StoredImage
             /\ rotation = 90
             /\ imageData' # EmptyDataURL ) =>
               /\ imageData'.from[1].image.w = 100
               /\ imageData'.from[1].image.h = 200
    ]_vars

\* One of the two hand-off entries is absent.
HandOffMissing == storage.editImageData = Null \/ storage.editImageType = NoString

\* C18: the mount effect, finding a hand-off entry absent, loads nothing and
\* redirects to the upload screen; and no code of the editor other than the
\* mount effect ever reads the entries.
C18_ReadOnlyAtMount ==
  /\ [][ (InitEffect /\ HandOffMissing) =>
          /\ imageData' = Null
          /\ imageType' = NoString
          /\ pendingLoads' = pendingLoads
          /\ route' = "home" ]_vars
  /\ [](storageReads \subseteq {"mount"})

\* C18, amended: the mount effect, finding a hand-off entry absent, loads
\* nothing and redirects to the upload screen; after it, the entries are read
\* only by handleReset, which takes the working image from editImageData
\* when that entry is present.
C18_ReadAtMountAndReset ==
  /\ [][ (InitEffect /\ HandOffMissing) =>
          /\ imageData' = Null
          /\ imageType' = NoString
          /\ pendingLoads' = pendingLoads
          /\ route' = "home" ]_vars
  /\ [](storageReads \subseteq {"mount", "handleReset"})
  /\ [][ ("handleReset" \in storageReads' /\ "handleReset" \notin storageReads) =>
          /\ handleReset
          /\ "mount" \in storageReads
          /\ storage.editImageData # Null => imageData' = storage.editImageData ]_vars

\* The editor has read the entries at mount and again in a reset that
\* followed a crop commit.
C18_Witness ==
  /\ storageReads = {"mount", "handleReset"}
  /\ route = "edit"
  /\ applied # {}
  /\ imageData = storage.editImageData

\* C19: a step that changes a hand-off entry is a reader.onloadend of the
\* uploader; no operation of the editor changes editImageData.
C19_EditorKeepsOriginal ==
  [][ \/ storage' = storage
      \/ \E i \in DOMAIN pendingReads : ReaderOnloadend(i) ]_vars

\* The working image is a committed crop of the stored original, which is
\* still the uploaded file, and a file has been exported.
C19_Witness ==
  /\ route = "edit"
  /\ imageData # Null
  /\ imageData # storage.editImageData
  /\ storage.editImageData = StoredImage
  /\ Lineage(imageData) = {imageData, StoredImage}
  /\ Len(downloads) > 0
  /\ downloads[1].image = imageData

\* A completed rectangle without area.
ZeroArea(c) == c.width = 0 \/ c.height = 0

\* C20: a commit of a zero-area rectangle leaves the working image as it
\* is, the working image is never an image without pixels, and no file
\* without pixels is downloaded.
C20_ZeroAreaCropRejected ==
  /\ [][ \A i \in DOMAIN pendingCrops :
          (FinishCropOnload(i) /\ ZeroArea(pendingCrops[i].completedCrop)) =>
            imageData' = imageData ]_vars
  /\ [](imageData # EmptyDataURL)
  /\ [](\A d \in DOMAIN downloads : downloads[d].width > 0 /\ downloads[d].height > 0)

\* The place of a step in the order the claim gives.
StepRank(step) ==
  CASE step = "draw" -> 1
    [] step = "redraw" -> 2
    [] step = "crop" -> 3
    [] step = "strokes" -> 4
    [] step = "text" -> 5

\* C21: the steps of every export run in the order draw, rotation/flip
\* redraw, crop extraction, stroke overlay, text; the redraw runs exactly when
\* the request has a rotation or flip, the crop exactly when it has a
\* completed rectangle, and only the text step runs more than once.
C21_ExportStepOrder ==
  [][ \A i \in DOMAIN pendingSaves :
        (SaveOnload(i) /\ Len(downloads') > Len(downloads)) =>
          LET steps == downloads'[Len(downloads')].steps
              Has(step) == \E k \in DOMAIN steps : steps[k] = step
          IN /\ steps[1] = "draw"
             /\ \A j, k \in DOMAIN steps :
                  j < k => \/ StepRank(steps[j]) < StepRank(steps[k])
                           \/ steps[j] = "text" /\ steps[k] = "text"
             /\ Has("redraw") <=> Transformed(pendingSaves[i])
             /\ Has("crop") <=> pendingSaves[i].completedCrop # Null
             /\ Has("text") <=> pendingSaves[i].textAnnotations # <<>>
    ]_vars

\* A file has been downloaded whose export redrew the flipped image, then
\* extracted the rectangle, then drew the overlay and a text.
C21_Witness ==
  /\ Len(downloads) > 0
  /\ downloads[1].steps = <<"draw", "redraw", "crop", "strokes", "text">>

\* C22: isDrawing becomes true only in a pointer-down on the pen canvas, it
\* is false after every pointer-up or pointer-out, and whenever it is true
\* the active tool is the pen.
C22_DrawingStateMachine ==
  /\ [][ (drawingState'.isDrawing /\ ~drawingState.isDrawing) =>
          /\ \E ox, oy \in PointerOffsets : CanvasMouseDown(ox, oy)
          /\ drawSettings.tool = "pen" ]_vars
  /\ [][ stopDrawing => ~drawingState'.isDrawing ]_vars
  /\ [](drawingState.isDrawing => drawSettings.tool = "pen")

\* Position (x, y) lies outside a width by height surface.
Outside(x, y, width, height) == x < 0 \/ x > width \/ y < 0 \/ y > height

\* What an event outside the image must leave alone.
EditState ==
  <<drawingState, drawCanvas, textAnnotations, drawSettings, newTextInput, isAddingText,
    selectedText>>

\* C23: a pointer-down or pointer-move on the pen canvas, and a click on the
\* text overlay, whose position is outside the image changes neither the
\* drawing state, nor the overlay, nor the annotation list, nor the tool or
\* the text entry.
C23_OutsideIsDropped ==
  [][ \A ox, oy \in PointerOffsets :
        /\ ( /\ CanvasMouseDown(ox, oy) \/ CanvasMouseMove(ox, oy)
             /\ Outside(CanvasX(ox), CanvasY(oy), drawCanvas.width, drawCanvas.height) )
           => UNCHANGED EditState
        /\ ( /\ PlaceText(ox, oy)
             /\ Outside(ox, oy, Displayed(imageData).width, Displayed(imageData).height) )
           => UNCHANGED EditState
    ]_vars

\* A stroke is in progress on the pen canvas and a text is on the image: a
\* move of the pointer outside the image would have something to change.
C23_Witness ==
  /\ PenCanvasShown
  /\ drawingState.isDrawing
  /\ drawCanvas.ink
  /\ textAnnotations # <<>>

\* C24: whenever the overlay exists and no decode of the working image is
\* pending, the overlay has the natural size of the working image.
C24_OverlayHasImageSize ==
  ( /\ drawCanvas # Null
    /\ Decodable(imageData)
    /\ pendingLoads = <<>> ) =>
      /\ drawCanvas.width = imageData.w
      /\ drawCanvas.height = imageData.h

\* C25: outside crop mode the zoom is 1 (scale is held in hundredths).
C25_ZoomOnlyInCropMode == ~isCropping => scale = 100

\* Crop mode has been left by the commit of a rectangle completed at zoom
\* 0.5, and the zoom is back at 1.
C25_Witness ==
  /\ ~isCropping
  /\ scale = 100
  /\ imageData = croppedData([completedCrop |-> CenterBand, scale |-> 50,
                               imageData |-> StoredImage])

\* The entries of the filter string in the order the claim gives, each with
\* the condition under which it appears and the functions it consists of.
ClaimedEntries(a, f) ==
  << [present |-> TRUE, fns |-> <<"brightness">>],
     [present |-> TRUE, fns |-> <<"contrast">>],
     [present |-> TRUE, fns |-> <<"saturate">>],
     [present |-> TRUE, fns |-> <<"blur">>],
     [present |-> TRUE, fns |-> <<"sepia">>],
     [present |-> TRUE, fns |-> <<"hue-rotate">>],
     [present |-> a.sharpen # 0, fns |-> <<"contrast", "brightness">>],
     [present |-> a.highlights # 0, fns |-> <<"brightness">>],
     [present |-> a.shadows # 0, fns |-> <<"brightness">>],
     [present |-> a.clarity # 0, fns |-> <<"contrast", "brightness">>],
     [present |-> a.vibrance # 0, fns |-> <<"saturate">>],
     [present |-> f # NoString /\ f # "none",
      fns |-> IF f = "grayscale" THEN <<"grayscale">> ELSE <<>>] >>

\* The functions of the entries of s that are present, in the order of s.
RECURSIVE PresentFns(_)
PresentFns(s) ==
  IF s = <<>> THEN <<>>
  ELSE (IF Head(s).present THEN Head(s).fns ELSE <<>>) \o PresentFns(Tail(s))

\* C26: the functions of the preview filter string are the claimed entries
\* that are present, in the claimed order.
C26_FilterStringOrder ==
  [k \in DOMAIN getImageStylesFilter(adj, selectedFilter) |->
     getImageStylesFilter(adj, selectedFilter)[k].fn]
    = PresentFns(ClaimedEntries(adj, selectedFilter))

\* A preview with two optional entries, one of them the preset.
C26_Witness ==
  /\ Rendered
  /\ selectedFilter = "grayscale"
  /\ adj.clarity # 0
  /\ Len(getImageStylesFilter(adj, selectedFilter)) = 9

\* C27: a completed rectangle is held only in crop mode; an export
\* requested outside crop mode captures no rectangle, and an export that
\* captured none runs no crop step.
C27_RectangleOnlyInCropMode ==
  /\ [](completedCrop # Null => isCropping)
  /\ [][ (handleSave /\ ~isCropping /\ Len(pendingSaves') > Len(pendingSaves)) =>
          pendingSaves'[Len(pendingSaves')].completedCrop = Null ]_vars
  /\ [][ \A i \in DOMAIN pendingSaves :
          ( /\ SaveOnload(i)
            /\ Len(downloads') > Len(downloads)
            /\ pendingSaves[i].completedCrop = Null ) =>
              /\ downloads'[Len(downloads')].region = Null
              /\ \A k \in DOMAIN downloads'[Len(downloads')].steps :
                   downloads'[Len(downloads')].steps[k] # "crop" ]_vars

\* A file has been exported outside crop mode from the image a commit
\* left, and no region was cut out of it.
C27_Witness ==
  /\ ~isCropping
  /\ completedCrop = Null
  /\ Len(downloads) > 0
  /\ downloads[1].image.from # <<>>
  /\ downloads[1].region = Null

\* C28: at zoom 1 with no rotation or flip, the region a commit cuts out of
\* the working image is the region the crop step of an export cuts out for
\* the same rectangle and the same image.
C28_CommitAndExportRegionsAgree ==
  [][ \A i \in DOMAIN pendingCrops :
        ( /\ FinishCropOnload(i)
          /\ pendingCrops[i].scale = 100
          /\ rotation = 0
          /\ flip = DefaultFlip
          /\ imageData' # EmptyDataURL ) =>
            imageData'.from[1].region
              = scaledCropSave(pendingCrops[i].completedCrop,
                               pendingCrops[i].imageData.w, pendingCrops[i].imageData.h)
    ]_vars

\* C29: stroke content on the overlay stays on it through every step other
\* than a reset.
C29_StrokesKeptUntilReset ==
  [][ HasInk(drawCanvas) => (HasInk(drawCanvas') \/ handleReset) ]_vars

\* C30: the end of a file read started by handleEdit writes the hand-off
\* entries and navigates only when the file read is the currently selected
\* one; after resetUpload (and a later processFile, if any) it does neither.
C30_StaleReadIsDropped ==
  [][ \A i \in DOMAIN pendingReads :
        (ReaderOnloadend(i) /\ route = "home" /\ pendingReads[i] # selectedFile) =>
          /\ storage' = storage
          /\ route' = route
    ]_vars

====
